---- MODULE Spec2Model ----
(***************************************************************************)
(* EvoSim allocation engine (src/src/evosim/allocators.py): the random     *)
(* allocator, its overbooking resolver and the greedy nearest-neighbour    *)
(* allocator, run as a small interpreter with an explicit call stack.      *)
(*                                                                         *)
(* Tables are modelled by their index and columns: the fleet is the rows   *)
(* 1..NumVehicles (table order = index order), the infrastructure is the   *)
(* rows labelled LabelBase+1, LabelBase+2, ...  pd.NA is modelled by NA.   *)
(* The calls of the numpy generator (rng.shuffle) are nondeterministic     *)
(* choices over every permutation.  Posts and destinations lie on one      *)
(* meridian, so that the BallTree query orders the posts by the difference *)
(* of latitudes; the inputs have no two posts at the same distance from a  *)
(* destination.                                                            *)
(***************************************************************************)
EXTENDS Integers, Sequences, FiniteSets, TLC

NumVehicles == 2
NumPosts == 2
MaxCapacity == 1
LabelBase == 10

\* the first two members of the Sockets flag
TYPE1 == 1
TYPE2 == 2

Vehicles == 1..NumVehicles
PostLabels(n) == (LabelBase + 1)..(LabelBase + n)
NA == 0
NoTable == <<>>

VARIABLES fleet, charging_posts, args, stack, ret, history

vars == <<fleet, charging_posts, args, stack, ret, history>>

----------------------------------------------------------------------------
(* Generic helpers *)

RECURSIVE BitAnd(_, _)
BitAnd(a, b) ==
    IF a = 0 \/ b = 0 THEN 0
    ELSE (a % 2) * (b % 2) + 2 * BitAnd(a \div 2, b \div 2)

Range(s) == {s[i] : i \in DOMAIN s}

RECURSIVE SumSeq(_)
SumSeq(s) == IF s = <<>> THEN 0 ELSE Head(s) + SumSeq(Tail(s))

RECURSIVE Repeat(_, _)
Repeat(x, n) == IF n <= 0 THEN <<>> ELSE <<x>> \o Repeat(x, n - 1)

RECURSIVE Flatten(_)
Flatten(ss) == IF ss = <<>> THEN <<>> ELSE Head(ss) \o Flatten(Tail(ss))

\* s[mask]: the elements of s at the positions where mask is TRUE
RECURSIVE BoolIndex(_, _)
BoolIndex(s, mask) ==
    IF s = <<>> THEN <<>>
    ELSE (IF Head(mask) THEN <<Head(s)>> ELSE <<>>) \o BoolIndex(Tail(s), Tail(mask))

CountOf(s, x) == Cardinality({i \in DOMAIN s : s[i] = x})

MinOf(a, b) == IF a < b THEN a ELSE b
MaxOf(a, b) == IF a > b THEN a ELSE b

----------------------------------------------------------------------------
(* Matchers *)

socket_compatibility(vehicle, charging_post) ==
    BitAnd(vehicle.socket, charging_post.socket) # 0

matcher(vehicle, charging_post) == socket_compatibility(vehicle, charging_post)

----------------------------------------------------------------------------
(* Call stack *)

Frame(fn, pc, fl, posts, occ, maxiter) ==
    [fn |-> fn, pc |-> pc, fleet |-> fl, posts |-> posts, occupancy |-> occ,
     maxiter |-> maxiter, iteration |-> 0, vacancies |-> <<>>,
     unassigned |-> <<>>, allocation |-> <<>>, subfleet_filter |-> {},
     nearest_neighbors |-> 0, warned |-> FALSE]

Top == stack[Len(stack)]
SetTop(f) == [stack EXCEPT ![Len(stack)] = f]
Push(f, g) == SetTop(f) \o <<g>>
Pop == SubSeq(stack, 1, Len(stack) - 1)

\* the row of table charging_posts with label p, as a call sees it
PostRow(f, p) ==
    [socket |-> charging_posts[p].socket, capacity |-> charging_posts[p].capacity,
     occupancy |-> f.occupancy[p]]

vacancy_by_number(f) ==
    [p \in Range(f.posts) |-> charging_posts[p].capacity - f.occupancy[p]]

TotalVacancy(f) ==
    SumSeq([i \in DOMAIN f.posts |-> vacancy_by_number(f)[f.posts[i]]])

\* every order rng.shuffle can give to the array a
Shuffles(a) ==
    {s \in [DOMAIN a -> Range(a)] : \A x \in Range(a) : CountOf(s, x) = CountOf(a, x)}

AllNA(fl) == [v \in Range(fl) |-> NA]

----------------------------------------------------------------------------
(* random_allocator *)

NeverDelegates(f) == FALSE

DelegatesOffByOne(f) == TotalVacancy(f) + 1 < Len(f.fleet)

\* lines 55-68: more vehicles than vacancies, hand over to random_overbooking
RandomAllocatorDelegates(f) == TotalVacancy(f) < Len(f.fleet)

\* line 70: one entry per unit of spare capacity, in table order
ExpandVacancies(f) ==
    Flatten([i \in DOMAIN f.posts |->
                Repeat(f.posts[i], vacancy_by_number(f)[f.posts[i]])])

DefaultMaxiterSlots(maxiter, vacancies) ==
    IF maxiter <= 0 THEN Len(vacancies) ELSE maxiter

DefaultMaxiterSingle(maxiter, vacancies) ==
    IF maxiter <= 0 THEN 1 ELSE maxiter

\* lines 72-78
DefaultMaxiter(maxiter, vacancies) ==
    IF maxiter <= 0 THEN Len(vacancies) + 1 ELSE maxiter

IsMatchAny(f) ==
    [i \in 1..MinOf(Len(f.unassigned), Len(f.vacancies)) |->
        \E p \in Range(f.posts) : matcher(fleet[f.unassigned[i]], PostRow(f, p))]

\* lines 85-88: the matcher on unassigned vehicle i and the post of slot i
IsMatch(f) ==
    [i \in 1..MinOf(Len(f.unassigned), Len(f.vacancies)) |->
        matcher(fleet[f.unassigned[i]], PostRow(f, f.vacancies[i]))]

\* the rows of the allocation column that are still null, in table order
NaRows(f) ==
    BoolIndex(f.fleet, [i \in DOMAIN f.fleet |-> f.allocation[f.fleet[i]] = NA])

\* lines 90-92: allocation.loc[allocation.isna()] = where(is_match, slots, NA)
CommitMatches(f, is_match) ==
    LET rows == NaRows(f) IN
    [v \in DOMAIN f.allocation |->
        IF \E i \in DOMAIN is_match : i <= Len(rows) /\ rows[i] = v /\ is_match[i]
        THEN f.vacancies[CHOOSE i \in DOMAIN is_match : i <= Len(rows) /\ rows[i] = v]
        ELSE f.allocation[v]]

\* lines 94-98: drop the slots that were matched, keep the tail
RemainingVacancies(f, is_match) ==
    BoolIndex(f.vacancies,
              [i \in DOMAIN f.vacancies |-> IF i <= Len(is_match) THEN ~is_match[i] ELSE TRUE])

RollNone(a) == a

\* line 101: np.roll(vacancies, shift=-1)
Roll(a) == IF a = <<>> THEN a ELSE Tail(a) \o <<Head(a)>>

\* lines 84-101: one turn of the matching loop
RandomRound(f) ==
    LET is_match == IsMatch(f)
        any == \E i \in DOMAIN is_match : is_match[i]
        unassigned == IF any
                      THEN BoolIndex(f.unassigned, [i \in DOMAIN is_match |-> ~is_match[i]])
                      ELSE f.unassigned
        vacancies == IF any THEN RemainingVacancies(f, is_match) ELSE f.vacancies
        broke == any /\ Len(unassigned) = 0
    IN [f EXCEPT !.allocation = IF any THEN CommitMatches(f, is_match) ELSE @,
                 !.unassigned = unassigned,
                 !.vacancies = IF broke THEN vacancies ELSE Roll(vacancies),
                 !.iteration = @ + 1,
                 !.pc = IF broke \/ f.iteration + 1 >= f.maxiter THEN "return" ELSE "loop"]

\* lines 55-83: the call up to the first turn of the loop
RandomAllocatorEnter ==
    /\ stack # <<>>
    /\ Top.fn = "random_allocator" /\ Top.pc = "entry"
    /\ IF RandomAllocatorDelegates(Top)
       THEN /\ stack' = Push([Top EXCEPT !.pc = "wait_overbooking"],
                             Frame("random_overbooking", "entry", Top.fleet, Top.posts,
                                   Top.occupancy, Top.maxiter))
       ELSE \E vacancies \in Shuffles(ExpandVacancies(Top)) :
              stack' = SetTop([Top EXCEPT
                                 !.pc = "loop",
                                 !.vacancies = vacancies,
                                 !.maxiter = DefaultMaxiter(Top.maxiter, vacancies),
                                 !.allocation = AllNA(Top.fleet),
                                 !.unassigned = Top.fleet])
    /\ UNCHANGED <<fleet, charging_posts, args, ret, history>>

RandomAllocatorRound ==
    /\ stack # <<>>
    /\ Top.fn = "random_allocator" /\ Top.pc = "loop"
    /\ stack' = SetTop(RandomRound(Top))
    /\ UNCHANGED <<fleet, charging_posts, args, ret, history>>

\* lines 102-104, and the return of line 61
RandomAllocatorReturn ==
    /\ stack # <<>>
    /\ Top.fn = "random_allocator"
    /\ \/ /\ Top.pc = "return"
          /\ ret = NoTable
          /\ ret' = <<Top.allocation>>
       \/ /\ Top.pc = "wait_overbooking"
          /\ ret # NoTable
          /\ ret' = ret
    /\ stack' = Pop
    /\ UNCHANGED <<fleet, charging_posts, args, history>>

----------------------------------------------------------------------------
(* random_overbooking *)

\* the table a call is handed as charging_posts: the caller's own for the
\* outermost call; random_allocator hands on the table it was given (line
\* 62) and so does random_overbooking to its method (line 152); the call on
\* the leftover fleet is handed spare_cps, rows taken out of infrastructure
\* by .loc (lines 164 and 168-170)
RECURSIVE TableOf(_)
TableOf(i) ==
    IF i = 1 THEN "caller"
    ELSE IF stack[i - 1].pc = "wait_leftover" THEN "spare_cps"
    ELSE TableOf(i - 1)

\* Series.copy(deep=...) of the occupancy column of a table: a deep copy
\* holds data of its own, a shallow copy the data of the table's column
SeriesCopy(table, deep) == IF deep THEN "working" ELSE table

OverbookingOccupancyShared(table) == SeriesCopy(table, FALSE)

\* line 159: allocation = charging_posts.occupancy.copy(deep=True)
OverbookingOccupancy(table) == SeriesCopy(table, TRUE)

GreedyOccupancyShared(table) == SeriesCopy(table, FALSE)

\* line 243: infrastructure["occupancy"] = charging_posts.occupancy.copy(deep=True)
GreedyOccupancy(table) == SeriesCopy(table, TRUE)

\* lines 161 and 289: += on a column changes the data the column holds, and
\* the caller's table with them when they are the data of the caller's table
CallerTable(column, occupancy) ==
    IF column = "caller"
    THEN [p \in DOMAIN charging_posts |->
             [charging_posts[p] EXCEPT !.occupancy = occupancy[p]]]
    ELSE charging_posts

\* line 140: the fleet fits, the base method does the whole job
OverbookingFits(f) == TotalVacancy(f) >= Len(f.fleet)

SubfleetFiltersInverted(f) ==
    {S \in SUBSET Range(f.fleet) : Cardinality(S) = Len(f.fleet) - TotalVacancy(f)}

\* lines 144-146: every first wave rng.shuffle can draw, one vehicle per vacancy
SubfleetFilters(f) ==
    {S \in SUBSET Range(f.fleet) : Cardinality(S) = TotalVacancy(f)}

\* fleet.loc[mask]: the rows of a table in a set, in table order
Rows(fl, S) == BoolIndex(fl, [i \in DOMAIN fl |-> fl[i] \in S])

SubfleetOnly(f, allocated_subfleet) ==
    [v \in f.subfleet_filter |-> allocated_subfleet[v]]

\* lines 153-156: the result table after the first wave
SubfleetResult(f, allocated_subfleet) ==
    [v \in Range(f.fleet) |->
        IF v \in f.subfleet_filter THEN allocated_subfleet[v] ELSE NA]

OccupancyStale(f, allocated_subfleet) == f.occupancy

\* lines 159-163: occupancy with the first wave's allocations added
OccupancyAfter(f, allocated_subfleet) ==
    [p \in DOMAIN f.occupancy |->
        f.occupancy[p]
        + Cardinality({v \in DOMAIN allocated_subfleet : allocated_subfleet[v] = p})]

SpareCpsAll(f, occupancy) == f.posts

SpareCpsNone(f, occupancy) == <<>>

SpareCpsInverted(f, occupancy) ==
    BoolIndex(f.posts,
              [i \in DOMAIN f.posts |->
                  occupancy[f.posts[i]] > charging_posts[f.posts[i]].capacity])

\* line 164: the posts that still have room
SpareCps(f, occupancy) ==
    BoolIndex(f.posts,
              [i \in DOMAIN f.posts |->
                  occupancy[f.posts[i]] < charging_posts[f.posts[i]].capacity])

\* line 171: result.loc[~subfleet_filter, "allocation"] = leftover.allocation
MergeLeftover(f, leftover) ==
    [v \in DOMAIN f.allocation |->
        IF v \notin f.subfleet_filter THEN leftover[v] ELSE f.allocation[v]]

\* lines 134-152: up to the call of the base method
RandomOverbookingEnter ==
    /\ stack # <<>>
    /\ Top.fn = "random_overbooking" /\ Top.pc = "entry"
    /\ IF OverbookingFits(Top)
       THEN stack' = Push([Top EXCEPT !.pc = "wait_method"],
                          Frame("random_allocator", "entry", Top.fleet, Top.posts,
                                Top.occupancy, Top.maxiter))
       ELSE \E subfleet_filter \in SubfleetFilters(Top) :
              stack' = Push([Top EXCEPT !.pc = "wait_subfleet",
                                        !.subfleet_filter = subfleet_filter],
                            Frame("random_allocator", "entry",
                                  Rows(Top.fleet, subfleet_filter), Top.posts,
                                  Top.occupancy, Top.maxiter))
    /\ UNCHANGED <<fleet, charging_posts, args, ret, history>>

\* lines 153-170: the first wave is back
RandomOverbookingLeftover ==
    /\ stack # <<>>
    /\ Top.fn = "random_overbooking" /\ Top.pc = "wait_subfleet"
    /\ ret # NoTable
    /\ LET result == SubfleetResult(Top, ret[1])
           occupancy == OccupancyAfter(Top, ret[1])
           spare_cps == SpareCps(Top, occupancy)
       IN IF Len(spare_cps) = 0
          THEN /\ stack' = Pop
               /\ ret' = <<result>>
          ELSE /\ stack' = Push([Top EXCEPT !.pc = "wait_leftover",
                                            !.allocation = result],
                                Frame("random_overbooking", "entry",
                                      Rows(Top.fleet, Range(Top.fleet) \ Top.subfleet_filter),
                                      spare_cps, occupancy, Top.maxiter))
               /\ ret' = NoTable
    /\ charging_posts' = CallerTable(OverbookingOccupancy(TableOf(Len(stack))),
                                   OccupancyAfter(Top, ret[1]))
    /\ UNCHANGED <<fleet, args, history>>

\* lines 141 and 171-173: hand the table back
RandomOverbookingReturn ==
    /\ stack # <<>>
    /\ Top.fn = "random_overbooking"
    /\ ret # NoTable
    /\ \/ /\ Top.pc = "wait_method"
          /\ ret' = ret
       \/ /\ Top.pc = "wait_leftover"
          /\ ret' = <<MergeLeftover(Top, ret[1])>>
    /\ stack' = Pop
    /\ UNCHANGED <<fleet, charging_posts, args, history>>

----------------------------------------------------------------------------
(* greedy_allocator *)

\* lines 217-220: None or non-positive arguments take their defaults
DefaultNeighbors(nearest_neighbors, posts) ==
    IF nearest_neighbors <= 0 THEN Len(posts) ELSE nearest_neighbors

GreedySinglePass(maxiter, f) ==
    IF maxiter <= 0 THEN 1 ELSE maxiter

GreedyDefaultMaxiter(maxiter, f) ==
    IF maxiter <= 0 THEN TotalVacancy(f) + 1 ELSE maxiter

\* lines 252-253
AvailablePosts(f) ==
    BoolIndex(f.posts,
              [i \in DOMAIN f.posts |->
                  charging_posts[f.posts[i]].capacity > f.occupancy[f.posts[i]]])

\* line 254
AvailableFleet(f) ==
    BoolIndex(f.fleet, [i \in DOMAIN f.fleet |-> f.allocation[f.fleet[i]] = NA])

\* lines 222-234 and the metric: with every longitude 0 the great-circle
\* distance grows with the difference of the latitudes
Distance(v, p) ==
    LET d == fleet[v].dest_lat - charging_posts[p].latitude
    IN IF d < 0 THEN -d ELSE d

\* lines 255-259: positions in available_posts of the k posts nearest to the
\* destination of vehicle v, nearest first
TreeQuery(v, available_posts, k) ==
    LET closer(i, j) ==
            \/ Distance(v, available_posts[i]) < Distance(v, available_posts[j])
            \/ /\ Distance(v, available_posts[i]) = Distance(v, available_posts[j])
               /\ i < j
        rank(j) == Cardinality({i \in DOMAIN available_posts : closer(i, j)})
    IN [n \in 1..k |-> CHOOSE j \in DOMAIN available_posts : rank(j) = n - 1]

NearestMatchesAll(f, v, available_posts, indices) ==
    [j \in DOMAIN indices |-> TRUE]

\* lines 262-264: match_all_to_all with an index matrix
NearestMatches(f, v, available_posts, indices) ==
    [j \in DOMAIN indices |->
        matcher(fleet[v], PostRow(f, available_posts[indices[j]]))]

NearestMatchingLast(f, available_posts, k) ==
    LET available_fleet == AvailableFleet(f)
        indices == [v \in Range(available_fleet) |-> TreeQuery(v, available_posts, k)]
        matches == [v \in Range(available_fleet) |->
                       NearestMatches(f, v, available_posts, indices[v])]
        any == {v \in Range(available_fleet) : \E j \in 1..k : matches[v][j]}
    IN [v \in any |->
           LET last == CHOOSE j \in 1..k :
                           matches[v][j] /\ \A i \in (j + 1)..k : ~matches[v][i]
           IN available_posts[indices[v][last]]]

\* lines 266-274: label of the nearest matching post; rows without a match
\* are not in the series
NearestMatching(f, available_posts, k) ==
    LET available_fleet == AvailableFleet(f)
        indices == [v \in Range(available_fleet) |-> TreeQuery(v, available_posts, k)]
        matches == [v \in Range(available_fleet) |->
                       NearestMatches(f, v, available_posts, indices[v])]
        any == {v \in Range(available_fleet) : \E j \in 1..k : matches[v][j]}
    IN [v \in any |->
           LET first == CHOOSE j \in 1..k :
                            matches[v][j] /\ \A i \in 1..(j - 1) : ~matches[v][i]
           IN available_posts[indices[v][first]]]

PickFirstInclusive(f, rank, label) ==
    rank <= charging_posts[label].capacity - f.occupancy[label]

\* lines 316-319: a member of a group stays when its rank in the group is
\* below the vacancies of the group's post
PickFirst(f, rank, label) ==
    rank < charging_posts[label].capacity - f.occupancy[label]

VoidNothing(f, allocation) == allocation

\* lines 308-325: rows are grouped by picked post, in table order
VoidOverbooking(f, allocation) ==
    [v \in DOMAIN allocation |->
        LET rank == Cardinality({u \in DOMAIN allocation :
                                    allocation[u] = allocation[v] /\ u < v})
        IN IF PickFirst(f, rank, allocation[v]) THEN allocation[v] ELSE NA]

GreedyIgnoresBudget(f) ==
    /\ TotalVacancy(f) # 0
    /\ \E v \in DOMAIN f.allocation : f.allocation[v] = NA

\* lines 246-250: the tests at the head of the loop
GreedyContinues(f) ==
    /\ f.iteration < f.maxiter
    /\ TotalVacancy(f) # 0
    /\ \E v \in DOMAIN f.allocation : f.allocation[v] = NA

WarnsOnAnyFailure(k, available_posts) == TRUE

\* line 282: fewer neighbours were asked for than posts have a vacancy
Warns(k, available_posts) == k < Len(available_posts)

\* lines 252-293: one turn of the loop
GreedyRound(f) ==
    LET available_posts == AvailablePosts(f)
        k == MinOf(f.nearest_neighbors, Len(available_posts))
        newly_assigned == VoidOverbooking(f, NearestMatching(f, available_posts, k))
        count == Cardinality({v \in DOMAIN newly_assigned : newly_assigned[v] # NA})
        allocation == [v \in DOMAIN f.allocation |->
                          IF f.allocation[v] # NA THEN f.allocation[v]
                          ELSE IF v \in DOMAIN newly_assigned THEN newly_assigned[v]
                          ELSE NA]
        occupancy == [p \in DOMAIN f.occupancy |->
                         f.occupancy[p]
                         + Cardinality({v \in DOMAIN newly_assigned : newly_assigned[v] = p})]
        g == [f EXCEPT !.allocation = allocation,
                       !.iteration = @ + MaxOf(count, 1)]
    IN IF count = 0
       THEN [g EXCEPT !.warned = Warns(k, available_posts), !.pc = "return"]
       ELSE LET h == [g EXCEPT !.occupancy = occupancy]
            IN [h EXCEPT !.pc = IF GreedyContinues(h) THEN "loop" ELSE "return"]

\* lines 217-246: the call up to the first test of the loop
GreedyAllocatorEnter ==
    /\ stack # <<>>
    /\ Top.fn = "greedy_allocator" /\ Top.pc = "entry"
    /\ LET f == [Top EXCEPT
                   !.nearest_neighbors = DefaultNeighbors(Top.nearest_neighbors, Top.posts),
                   !.maxiter = GreedyDefaultMaxiter(Top.maxiter, Top),
                   !.allocation = AllNA(Top.fleet)]
       IN stack' = SetTop([f EXCEPT !.pc = IF GreedyContinues(f) THEN "loop" ELSE "return"])
    /\ UNCHANGED <<fleet, charging_posts, args, ret, history>>

GreedyAllocatorRound ==
    /\ stack # <<>>
    /\ Top.fn = "greedy_allocator" /\ Top.pc = "loop"
    /\ stack' = SetTop(GreedyRound(Top))
    /\ charging_posts' = CallerTable(GreedyOccupancy(TableOf(Len(stack))),
                                   GreedyRound(Top).occupancy)
    /\ UNCHANGED <<fleet, args, ret, history>>

\* lines 295-297
GreedyAllocatorReturn ==
    /\ stack # <<>>
    /\ Top.fn = "greedy_allocator" /\ Top.pc = "return"
    /\ ret' = <<Top.allocation>>
    /\ stack' = Pop
    /\ UNCHANGED <<fleet, charging_posts, args, history>>

----------------------------------------------------------------------------
(* The caller *)

AllRows == [v \in Vehicles |-> v]
AllPosts == [i \in 1..Cardinality(DOMAIN charging_posts) |-> LabelBase + i]

CallFrame(a) ==
    [Frame(a.entry, "entry", AllRows, AllPosts,
           [p \in DOMAIN charging_posts |-> charging_posts[p].occupancy], a.maxiter)
       EXCEPT !.nearest_neighbors = a.nearest_neighbors]

\* the socket types the tables are drawn from
SingleSockets == {TYPE1, TYPE2}

\* TYPE1 | TYPE2
AllSockets == TYPE1 + TYPE2

\* a vehicle takes one type of plug, or either
VehicleSockets == SingleSockets \cup {AllSockets}

\* posts stand in a row along a meridian, 3 degrees apart, in table order
PostLatitude(p) == 3 * (p - LabelBase)

\* destinations just inside either end of the row, none at the same distance
\* from two posts
Destinations(n) == {4, MaxOf(4, 3 * n - 1)}

\* infrastructures of n posts
PostTables(n) ==
    {t \in [PostLabels(n) -> [socket : SingleSockets, capacity : {MaxCapacity},
                              occupancy : 0..MaxCapacity, latitude : 3..(3 * n)]] :
        \A p \in PostLabels(n) : t[p].latitude = PostLatitude(p)}

\* tables whose destination columns play no part (the random allocators)
FleetTables ==
    [Vehicles -> [socket : VehicleSockets, dest_lat : {4}]]

\* tables with destinations all along the row of n posts
GeoFleetTables(n) ==
    [Vehicles -> [socket : VehicleSockets, dest_lat : Destinations(n)]]

Init ==
    /\ charging_posts \in UNION {PostTables(n) : n \in 1..NumPosts}
    /\ \/ /\ fleet \in FleetTables
          /\ args \in [entry : {"random_allocator", "random_overbooking"},
                       maxiter : {0}, nearest_neighbors : {0}]
       \/ /\ fleet \in GeoFleetTables(Cardinality(DOMAIN charging_posts))
          /\ args \in [entry : {"greedy_allocator"},
                       maxiter : {0}, nearest_neighbors : {0, 1}]
    /\ stack = <<CallFrame(args)>>
    /\ ret = NoTable
    /\ history = <<>>

\* the caller runs greedy_allocator again on the same tables with more
\* neighbours: some, or (0) as many as there are posts
GreedyWiden ==
    /\ stack = <<>>
    /\ ret # NoTable
    /\ history = <<>>
    /\ args.entry = "greedy_allocator"
    /\ args.nearest_neighbors > 0
    /\ \E wider \in {0} \cup ((args.nearest_neighbors + 1)..(Len(AllPosts) - 1)) :
          /\ args' = [args EXCEPT !.nearest_neighbors = wider]
          /\ stack' = <<CallFrame(args')>>
    /\ history' = <<[nearest_neighbors |-> args.nearest_neighbors, allocation |-> ret[1]]>>
    /\ ret' = NoTable
    /\ UNCHANGED <<fleet, charging_posts>>

Next ==
    \/ RandomAllocatorEnter
    \/ RandomAllocatorRound
    \/ RandomAllocatorReturn
    \/ RandomOverbookingEnter
    \/ RandomOverbookingLeftover
    \/ RandomOverbookingReturn
    \/ GreedyAllocatorEnter
    \/ GreedyAllocatorRound
    \/ GreedyAllocatorReturn
    \/ GreedyWiden

Spec == Init /\ [][Next]_vars

\* the random allocators alone, each call run to its end
RandomInit ==
    /\ charging_posts \in UNION {PostTables(n) : n \in 1..NumPosts}
    /\ fleet \in FleetTables
    /\ args \in [entry : {"random_allocator", "random_overbooking"},
                 maxiter : {0}, nearest_neighbors : {0}]
    /\ stack = <<CallFrame(args)>>
    /\ ret = NoTable
    /\ history = <<>>

RandomNext ==
    \/ RandomAllocatorEnter
    \/ RandomAllocatorRound
    \/ RandomAllocatorReturn
    \/ RandomOverbookingEnter
    \/ RandomOverbookingLeftover
    \/ RandomOverbookingReturn

\* a call is on the stack
Running == stack # <<>>

\* a step of RandomNext is possible exactly while a call is on the stack
RandomEnabled == Running <=> ENABLED <<RandomNext>>_vars

\* the interpreter runs a call on until it returns: weak fairness of
\* RandomNext, WF_vars(RandomNext), with its enabling condition written as
\* Running (RandomEnabled)
RandomSpec ==
    RandomInit /\ [][RandomNext]_vars /\ ([]<>~Running \/ []<><<RandomNext>>_vars)

\* the largest budget a caller passes as maxiter
MaxBudget == 2

\* random_allocator called with every budget: none (0) or 1..MaxBudget
BudgetInit ==
    /\ charging_posts \in UNION {PostTables(n) : n \in 1..NumPosts}
    /\ fleet \in FleetTables
    /\ args \in [entry : {"random_allocator"},
                 maxiter : 0..MaxBudget, nearest_neighbors : {0}]
    /\ stack = <<CallFrame(args)>>
    /\ ret = NoTable
    /\ history = <<>>

BudgetSpec == BudgetInit /\ [][RandomNext]_vars

\* greedy_allocator called without a budget or with a budget of one, and
\* with one neighbour or all
GreedyInit ==
    /\ charging_posts \in UNION {PostTables(n) : n \in 1..NumPosts}
    /\ fleet \in GeoFleetTables(Cardinality(DOMAIN charging_posts))
    /\ args \in [entry : {"greedy_allocator"},
                 maxiter : {0, 1}, nearest_neighbors : {0, 1}]
    /\ stack = <<CallFrame(args)>>
    /\ ret = NoTable
    /\ history = <<>>

GreedyNext ==
    \/ GreedyAllocatorEnter
    \/ GreedyAllocatorRound
    \/ GreedyAllocatorReturn

\* the interpreter runs the call on until it returns: weak fairness of
\* GreedyNext, WF_vars(GreedyNext), with its enabling condition written as
\* Running (each of entry, loop and return has its action, and each action
\* changes the stack)
GreedySpec ==
    GreedyInit /\ [][GreedyNext]_vars /\ ([]<>~Running \/ []<><<GreedyNext>>_vars)

----------------------------------------------------------------------------
(* What the claims speak about *)

\* the call has returned its table
Done == stack = <<>> /\ ret # NoTable
Output == ret[1]

OriginalVacancy(p) == charging_posts[p].capacity - charging_posts[p].occupancy
FleetSize == Cardinality(Vehicles)
OriginalTotalVacancy ==
    SumSeq([i \in 1..Cardinality(DOMAIN charging_posts) |-> OriginalVacancy(LabelBase + i)])

Matches(v, p) ==
    matcher(fleet[v], [socket |-> charging_posts[p].socket,
                       capacity |-> charging_posts[p].capacity,
                       occupancy |-> charging_posts[p].occupancy])

\* every allocation column of the running call: the frames' and the returned one
Columns == {stack[i].allocation : i \in DOMAIN stack} \cup Range(ret)

\* the vehicles that some table of the running call gives to post p
AllocatedTo(p) ==
    {v \in Vehicles : \E c \in Columns : v \in DOMAIN c /\ c[v] = p}

Assigned(column) == {v \in DOMAIN column : column[v] # NA}
Received(column, p) == Cardinality({v \in DOMAIN column : column[v] = p})

RandomEntry == args.entry \in {"random_allocator", "random_overbooking"}
GreedyEntry == args.entry = "greedy_allocator"

\* C1: at every step of every allocator (after each round of the loops and
\* at return), the vehicles given to a post plus the post's original
\* occupancy never exceed the post's capacity.
C1_CapacityInvariant ==
    \A p \in DOMAIN charging_posts :
        Cardinality(AllocatedTo(p)) + charging_posts[p].occupancy
            <= charging_posts[p].capacity

\* a post was filled to capacity by the call while another vehicle that
\* matches it had to go without it
C1_Witness ==
    /\ Done
    /\ \E p \in DOMAIN charging_posts :
          /\ OriginalVacancy(p) > 0
          /\ Received(Output, p) = OriginalVacancy(p)
          /\ \E v \in Vehicles : Matches(v, p) /\ Output[v] # p

\* C2: in every table an allocator builds or returns, a vehicle with a
\* non-null allocation matches the post it is allocated to.
C2_Compatibility ==
    \A c \in Columns : \A v \in Assigned(c) : Matches(v, c[v])

\* a vehicle was assigned although some other post does not match it
C2_Witness ==
    /\ Done
    /\ \E v \in Assigned(Output) :
          \E p \in DOMAIN charging_posts : ~Matches(v, p) /\ OriginalVacancy(p) > 0

\* C3: the returned table has exactly the rows of the input fleet, and each
\* allocation is null or a label of the infrastructure index.
C3_RowsAndLabels ==
    Done =>
        /\ DOMAIN Output = Vehicles
        /\ \A v \in Vehicles : Output[v] = NA \/ Output[v] \in DOMAIN charging_posts

\* a returned table with both an assigned and an unassigned vehicle, from the
\* overbooking resolver
C3_Witness ==
    /\ Done
    /\ RandomEntry
    /\ OriginalTotalVacancy < FleetSize
    /\ \E v, w \in Vehicles : Output[v] = NA /\ Output[w] # NA

\* C4: when the fleet is larger than the total vacancy, the overbooking
\* resolver assigns at most as many vehicles as there are vacancies, and
\* exactly that many when every vehicle matches every post.
C4_OverbookingConservation ==
    (Done /\ RandomEntry /\ OriginalTotalVacancy < FleetSize) =>
        /\ Cardinality(Assigned(Output)) <= OriginalTotalVacancy
        /\ (\A v \in Vehicles : \A p \in DOMAIN charging_posts : Matches(v, p))
              => Cardinality(Assigned(Output)) = OriginalTotalVacancy

\* every vehicle matches every post and the vacancies are all taken, the
\* other vehicle is left out
C4_Witness ==
    /\ Done
    /\ RandomEntry
    /\ OriginalTotalVacancy < FleetSize
    /\ OriginalTotalVacancy > 0
    /\ \A v \in Vehicles : \A p \in DOMAIN charging_posts : Matches(v, p)
    /\ Cardinality(Assigned(Output)) = OriginalTotalVacancy

\* C5: a random_allocator call with more vehicles than vacancies never
\* enters its matching loop: it waits for random_overbooking, called on the
\* same fleet and posts with the same budget.
C5_DelegatesWhenOverbooked ==
    \A i \in DOMAIN stack :
        stack[i].fn = "random_allocator" =>
            IF TotalVacancy(stack[i]) < Len(stack[i].fleet)
            THEN /\ stack[i].pc \in {"entry", "wait_overbooking"}
                 /\ (stack[i].pc = "wait_overbooking" /\ i < Len(stack)) =>
                       /\ stack[i + 1].fn = "random_overbooking"
                       /\ stack[i + 1].fleet = stack[i].fleet
                       /\ stack[i + 1].posts = stack[i].posts
                       /\ stack[i + 1].maxiter = stack[i].maxiter
            ELSE stack[i].pc \in {"entry", "loop", "return"}

\* the overbooked call waits while a first wave runs the matching loop
C5_Witness ==
    /\ Len(stack) = 3
    /\ stack[1].fn = "random_allocator" /\ stack[1].pc = "wait_overbooking"
    /\ stack[3].fn = "random_allocator" /\ stack[3].pc = "loop"
    /\ Len(stack[3].fleet) < Len(stack[1].fleet)

Overbooked == OriginalTotalVacancy < FleetSize

\* a call that ended without returning a table ended by an exception
EndedInError == stack = <<>> /\ ret = NoTable

PastEntry == ~(Len(stack) = 1 /\ stack[1].pc = "entry")

\* C6 as stated: with more vehicles than vacancies, random_allocator ends at
\* once in a configuration error.
C6_FatalErrorWhenOverbooked ==
    (args.entry = "random_allocator" /\ Overbooked /\ PastEntry) => EndedInError

\* C6, amended: with more vehicles than vacancies, random_allocator raises no
\* error; it waits for random_overbooking and returns a table with every
\* vehicle, where at least fleet size - total vacancy vehicles are null.
C6_NoErrorWhenOverbooked ==
    (args.entry = "random_allocator" /\ Overbooked /\ PastEntry) =>
        /\ ~EndedInError
        /\ stack # <<>> =>
              /\ stack[1].pc = "wait_overbooking"
              /\ Len(stack) >= 2 => stack[2].fn = "random_overbooking"
        /\ Done =>
              /\ DOMAIN Output = Vehicles
              /\ Cardinality(Vehicles \ Assigned(Output))
                    >= FleetSize - OriginalTotalVacancy

\* an overbooked random_allocator call has returned with a vehicle left out
\* and a vehicle assigned
C6_Witness ==
    /\ Done
    /\ args.entry = "random_allocator"
    /\ Overbooked
    /\ Assigned(Output) # {}
    /\ Assigned(Output) # Vehicles

\* the vehicles that match no post of the infrastructure
Unmatchable ==
    {v \in Vehicles : \A p \in DOMAIN charging_posts : ~Matches(v, p)}

\* one vehicle per vacant slot, each vehicle outside the unmatchable subset
\* carrying the socket of its slot's post
ExactFit ==
    /\ OriginalTotalVacancy = FleetSize
    /\ \E a \in [Vehicles -> DOMAIN charging_posts] :
          /\ \A p \in DOMAIN charging_posts : Received(a, p) = OriginalVacancy(p)
          /\ \A v \in Vehicles \ Unmatchable :
                fleet[v].socket = charging_posts[a[v]].socket

\* C7: in an exact fit, random_allocator with the default budget leaves
\* exactly the unmatchable vehicles null; with none unmatchable every post
\* receives exactly its vacancy.
C7_ExactFit ==
    (Done /\ args.entry = "random_allocator" /\ args.maxiter = 0 /\ ExactFit) =>
        /\ \A v \in Vehicles : Output[v] = NA <=> v \in Unmatchable
        /\ Unmatchable = {} =>
              \A p \in DOMAIN charging_posts : Received(Output, p) = OriginalVacancy(p)

\* an exact fit over two posts of different sockets, all assigned
C7_Witness ==
    /\ Done
    /\ args.entry = "random_allocator"
    /\ ExactFit
    /\ Unmatchable = {}
    /\ \E p, q \in DOMAIN charging_posts :
          /\ charging_posts[p].socket # charging_posts[q].socket
          /\ Received(Output, p) > 0 /\ Received(Output, q) > 0

\* for every vacant slot a vehicle of its own with the socket of the post
SlotsCovered ==
    \E a \in [Vehicles -> DOMAIN charging_posts \cup {NA}] :
        /\ \A p \in DOMAIN charging_posts : Received(a, p) = OriginalVacancy(p)
        /\ \A v \in Assigned(a) : fleet[v].socket = charging_posts[a[v]].socket

\* C8: with more vehicles than vacancies, single-type sockets and a vehicle
\* of the right socket for every vacant slot, random_allocator fills every
\* post exactly to capacity.
C8_OverbookedFill ==
    (/\ Done /\ args.entry = "random_allocator" /\ args.maxiter = 0
     /\ Overbooked
     /\ \A v \in Vehicles : fleet[v].socket \in SingleSockets
     /\ SlotsCovered) =>
        \A p \in DOMAIN charging_posts :
            Received(Output, p) + charging_posts[p].occupancy = charging_posts[p].capacity

\* the vacancy went to the right vehicle while a vehicle of another socket
\* was in the fleet
C8_Witness ==
    /\ Done
    /\ args.entry = "random_allocator"
    /\ Overbooked
    /\ SlotsCovered
    /\ \A v \in Vehicles : fleet[v].socket \in SingleSockets
    /\ \E p \in DOMAIN charging_posts :
          /\ Received(Output, p) = OriginalVacancy(p) /\ OriginalVacancy(p) > 0
          /\ \E v \in Vehicles : ~Matches(v, p)

\* C9: greedy_allocator with unrestricted neighbours and the default budget
\* returns a table where no unallocated vehicle matches a post that still has
\* room.
C9_GreedyMaximality ==
    (Done /\ GreedyEntry /\ args.nearest_neighbors = 0 /\ args.maxiter = 0) =>
        \A v \in Vehicles \ Assigned(Output) :
            \A p \in DOMAIN charging_posts :
                Received(Output, p) + charging_posts[p].occupancy
                        < charging_posts[p].capacity
                    => ~Matches(v, p)

\* a vehicle ends on a post farther than a matching post that had room at the
\* start: it lost the nearer one to oversubscription and was tried again
C9_Witness ==
    /\ Done
    /\ GreedyEntry /\ args.nearest_neighbors = 0 /\ history = <<>>
    /\ \E v \in Assigned(Output) :
          \E p \in DOMAIN charging_posts :
              /\ Matches(v, p) /\ OriginalVacancy(p) > 0
              /\ Distance(v, p) < Distance(v, Output[v])

\* C10 as stated: every vehicle allocated in the narrower run is allocated
\* to the same post in the wider run.
C10_WideningKeepsAssignments ==
    (Done /\ history # <<>>) =>
        \A v \in Assigned(history[1].allocation) :
            Output[v] = history[1].allocation[v]

\* the tentative picks of a round when k neighbours are asked for
PicksWith(f, k) ==
    NearestMatching(f, AvailablePosts(f), MinOf(k, Len(AvailablePosts(f))))

\* C10, amended: in one and the same round (same unallocated vehicles, same
\* vacant posts), asking for one more neighbour only adds tentative picks: a
\* vehicle that picks a post among its k nearest picks that same post among
\* its k + 1 nearest, and so with any larger k.
C10_WideningAddsPicks ==
    \A i \in DOMAIN stack :
        (stack[i].fn = "greedy_allocator" /\ stack[i].pc = "loop") =>
            \A k \in 1..(Len(AvailablePosts(stack[i])) - 1) :
                LET narrow == PicksWith(stack[i], k)
                    wide == PicksWith(stack[i], k + 1)
                IN /\ DOMAIN narrow \subseteq DOMAIN wide
                   /\ \A v \in DOMAIN narrow : wide[v] = narrow[v]

\* a round of the wider second run where a vehicle picks a post only thanks
\* to the wider window, the post another vehicle picks with either window
C10_Witness ==
    /\ history # <<>>
    /\ Len(stack) = 1 /\ stack[1].pc = "loop"
    /\ LET narrow == PicksWith(stack[1], history[1].nearest_neighbors)
           wide == PicksWith(stack[1], stack[1].nearest_neighbors)
       IN \E v \in DOMAIN wide \ DOMAIN narrow :
             \E w \in DOMAIN narrow : narrow[w] = wide[v]

----------------------------------------------------------------------------
(* Matchers and classification (src/src/evosim/matchers.py) *)

\* rows of the table classify splits, and the classes a caller waits for
NumRows == NumPosts + 1
MaxYield == NumRows + 1

\* the names registered with register_matcher
registered_matchers ==
    {"charging_post_availability", "socket_compatibility", "distance",
     "distance_from_destination", "charger_compatibility"}

AvailabilityInclusive(vehicle, charging_post) ==
    charging_post.occupancy <= charging_post.capacity

\* line 56
charging_post_availability(vehicle, charging_post) ==
    charging_post.occupancy < charging_post.capacity

\* lines 95-98
charger_compatibility(vehicle, charging_post) ==
    BitAnd(vehicle.charger, charging_post.charger) # 0

\* the registered function of that name applied to a pair of rows
Call(name, vehicle, charging_post) ==
    CASE name = "socket_compatibility" -> socket_compatibility(vehicle, charging_post)
      [] name = "charger_compatibility" -> charger_compatibility(vehicle, charging_post)
      [] name = "charging_post_availability" ->
            charging_post_availability(vehicle, charging_post)

\* lines 111-117: the first function, then logical_and with each further one
RECURSIVE MatchUpTo(_, _, _, _)
MatchUpTo(functions, vehicle, charging_post, n) ==
    IF n = 1 THEN Call(functions[1], vehicle, charging_post)
    ELSE MatchUpTo(functions, vehicle, charging_post, n - 1)
            /\ Call(functions[n], vehicle, charging_post)

\* lines 110-117: the predicate factory returns, on one pair of rows
match(functions, vehicle, charging_post) ==
    MatchUpTo(functions, vehicle, charging_post, Len(functions))

\* whether a function reads its first argument: the result of a function that
\* does not has the shape of the second argument alone
ReadsVehicle(name) == name \in {"socket_compatibility", "charger_compatibility"}

\* whether matcher(table, row) is a pandas.Series (with an index) rather than
\* a single boolean
IsSeries(functions) == \E i \in DOMAIN functions : ReadsVehicle(functions[i])

\* the state of a generator: classify, or classify_with_fleet around it
GeneratorFrame(fn, data, functions, revisit) ==
    [fn |-> fn, pc |-> "loop", data |-> data, functions |-> functions,
     revisit |-> revisit,
     visitless |-> [i \in DOMAIN data |-> TRUE],
     fleet_visitless |-> [v \in DOMAIN fleet |-> TRUE],
     error |-> ""]

Raise(f, error) == <<[f EXCEPT !.pc = "raised", !.error = error]>>

\* line 210: visitless.any()
AnyVisitless(g) == \E i \in DOMAIN g.visitless : g.visitless[i]

\* line 211: np.argmax(visitless), the position of the first True
ClassifyIndex(g) ==
    CHOOSE i \in DOMAIN g.visitless :
        g.visitless[i] /\ \A j \in 1..(i - 1) : ~g.visitless[j]

\* line 212: matcher(data, data.iloc[index])
ClassifyIsMatch(g) ==
    [i \in DOMAIN g.data |->
        match(g.functions, charging_posts[g.data[i]],
              charging_posts[g.data[ClassifyIndex(g)]])]

YieldeeRevisitedOnly(g) ==
    [mask |-> [i \in DOMAIN g.data |->
                  ClassifyIsMatch(g)[i] /\ (g.revisit # g.visitless[i])],
     template |-> g.data[ClassifyIndex(g)]]

\* lines 213-214: the class and the label of its template row
ClassifyYieldee(g) ==
    [mask |-> [i \in DOMAIN g.data |->
                  ClassifyIsMatch(g)[i] /\ (g.revisit \/ g.visitless[i])],
     template |-> g.data[ClassifyIndex(g)]]

\* line 216
ClassifyVisitless(g) ==
    [i \in DOMAIN g.data |-> ~ClassifyIsMatch(g)[i] /\ g.visitless[i]]

\* what the caller keeps of the classes it is handed: the first MaxYield
Collected(classes, yieldee) ==
    IF Len(classes) < MaxYield THEN Append(classes, yieldee) ELSE classes

\* lines 210-215: some row is unclassified, the next class is handed to the
\* caller and the generator is suspended at its yield
ClassifyYield ==
    /\ stack # <<>>
    /\ Top.fn = "classify" /\ Top.pc = "loop"
    /\ AnyVisitless(Top)
    /\ IsSeries(Top.functions)
    /\ ret' = Collected(ret, ClassifyYieldee(Top))
    /\ stack' = SetTop([Top EXCEPT !.pc = "yield"])
    /\ UNCHANGED <<fleet, charging_posts, args, history>>

\* line 216: the caller asks for the next class, the rows of the class just
\* yielded leave the rows still to classify
ClassifyResume ==
    /\ stack # <<>>
    /\ Top.fn = "classify" /\ Top.pc = "yield"
    /\ stack' = SetTop([Top EXCEPT !.pc = "loop",
                                   !.visitless = ClassifyVisitless(Top)])
    /\ UNCHANGED <<fleet, charging_posts, args, ret, history>>

\* line 214: is_match.index on a single boolean
ClassifyRaise ==
    /\ stack # <<>>
    /\ Top.fn = "classify" /\ Top.pc = "loop"
    /\ AnyVisitless(Top)
    /\ ~IsSeries(Top.functions)
    /\ stack' = Raise(Top, "AttributeError")
    /\ UNCHANGED <<fleet, charging_posts, args, ret, history>>

\* line 210: the loop ends, the generator is exhausted
ClassifyStop ==
    /\ stack # <<>>
    /\ Top.fn = "classify" /\ Top.pc = "loop"
    /\ ~AnyVisitless(Top)
    /\ stack' = Pop
    /\ UNCHANGED <<fleet, charging_posts, args, ret, history>>

\* positions of the rows of table charging_posts, in table order
PostRows == [i \in 1..Cardinality(DOMAIN charging_posts) |-> LabelBase + i]

\* the caller classifies the same table again, classes now overlapping
ClassifyRevisit ==
    /\ stack = <<>>
    /\ args.entry = "classify"
    /\ ~args.revisit
    /\ history = <<>>
    /\ history' = <<[revisit |-> FALSE, classes |-> ret]>>
    /\ args' = [args EXCEPT !.revisit = TRUE]
    /\ stack' = <<GeneratorFrame("classify", PostRows, args.functions, TRUE)>>
    /\ ret' = <<>>
    /\ UNCHANGED <<fleet, charging_posts>>

\* tables of n posts with one or two socket types each
InfrastructureTables(n) ==
    [PostLabels(n) -> [socket : VehicleSockets, capacity : {MaxCapacity},
                       occupancy : 0..MaxCapacity]]

\* matchers as factory resolves them, for tables with these columns
TableMatchers ==
    {<<"socket_compatibility">>, <<"charging_post_availability">>,
     <<"socket_compatibility", "charging_post_availability">>}

ClassifyInit ==
    /\ charging_posts \in UNION {InfrastructureTables(n) : n \in 1..NumRows}
    /\ fleet = <<>>
    /\ args \in [entry : {"classify"}, functions : TableMatchers, revisit : BOOLEAN]
    /\ stack = <<GeneratorFrame("classify", PostRows, args.functions, args.revisit)>>
    /\ ret = <<>>
    /\ history = <<>>

ClassifyNext ==
    \/ ClassifyYield
    \/ ClassifyResume
    \/ ClassifyRaise
    \/ ClassifyStop
    \/ ClassifyRevisit

\* the caller keeps asking for the next class
ClassifySpec == ClassifyInit /\ [][ClassifyNext]_vars /\ WF_vars(ClassifyNext)

----------------------------------------------------------------------------
(* classify_with_fleet, lines 285-290 *)

\* line 287: matcher(fleet, charging_posts.loc[infrastructure.template])
FleetIsMatch(g, template) ==
    [v \in DOMAIN fleet |-> match(g.functions, fleet[v], charging_posts[template])]

\* line 288
FleetYieldee(g, template) ==
    [v \in DOMAIN fleet |->
        FleetIsMatch(g, template)[v] /\ (g.revisit \/ g.fleet_visitless[v])]

FleetVisitlessKept(g, template) == g.fleet_visitless

\* line 290
FleetVisitless(g, template) ==
    [v \in DOMAIN fleet |-> ~FleetIsMatch(g, template)[v] /\ g.fleet_visitless[v]]

\* lines 286-289: classify yields a class of posts, which is handed to the
\* caller paired with the vehicles matching its template
ClassifyWithFleetYield ==
    /\ stack # <<>>
    /\ Top.fn = "classify_with_fleet" /\ Top.pc = "loop"
    /\ AnyVisitless(Top)
    /\ IsSeries(Top.functions)
    /\ LET infrastructure == ClassifyYieldee(Top)
       IN ret' = Collected(ret, [charging_posts |-> infrastructure,
                                 fleet |-> FleetYieldee(Top, infrastructure.template)])
    /\ stack' = SetTop([Top EXCEPT !.pc = "yield"])
    /\ UNCHANGED <<fleet, charging_posts, args, history>>

\* line 290, then line 216 of classify as the for loop asks for the next class
ClassifyWithFleetResume ==
    /\ stack # <<>>
    /\ Top.fn = "classify_with_fleet" /\ Top.pc = "yield"
    /\ stack' = SetTop([Top EXCEPT
           !.pc = "loop",
           !.visitless = ClassifyVisitless(Top),
           !.fleet_visitless = FleetVisitless(Top, ClassifyYieldee(Top).template)])
    /\ UNCHANGED <<fleet, charging_posts, args, ret, history>>

\* the exception of classify goes through the for loop
ClassifyWithFleetRaise ==
    /\ stack # <<>>
    /\ Top.fn = "classify_with_fleet" /\ Top.pc = "loop"
    /\ AnyVisitless(Top)
    /\ ~IsSeries(Top.functions)
    /\ stack' = Raise(Top, "AttributeError")
    /\ UNCHANGED <<fleet, charging_posts, args, ret, history>>

\* classify is exhausted: the for loop ends
ClassifyWithFleetStop ==
    /\ stack # <<>>
    /\ Top.fn = "classify_with_fleet" /\ Top.pc = "loop"
    /\ ~AnyVisitless(Top)
    /\ stack' = Pop
    /\ UNCHANGED <<fleet, charging_posts, args, ret, history>>

ClassifyWithFleetInit ==
    /\ charging_posts \in UNION {InfrastructureTables(n) : n \in 1..NumPosts}
    /\ fleet \in [Vehicles -> [socket : VehicleSockets]]
    /\ args \in [entry : {"classify_with_fleet"}, functions : TableMatchers,
                 revisit : BOOLEAN]
    /\ stack = <<GeneratorFrame("classify_with_fleet", PostRows, args.functions,
                                args.revisit)>>
    /\ ret = <<>>
    /\ history = <<>>

ClassifyWithFleetNext ==
    \/ ClassifyWithFleetYield
    \/ ClassifyWithFleetResume
    \/ ClassifyWithFleetRaise
    \/ ClassifyWithFleetStop

ClassifyWithFleetSpec == ClassifyWithFleetInit /\ [][ClassifyWithFleetNext]_vars

----------------------------------------------------------------------------
(* factory, lines 101-119, and AutoConf.factory, autoconf.py lines 198-221 *)

\* the first two members of the Chargers flag
SLOW == 1
FAST == 2

\* one or two charger types
ChargerTypes == {SLOW, FAST, SLOW + FAST}

\* settings is one name, or a list of names
SettingNames == {"socket_compatibility", "charger_compatibility",
                 "charging_post_availability", "dummy"}

Settings ==
    [text : {TRUE}, names : [1..1 -> SettingNames]]
        \cup [text : {FALSE},
              names : {<<>>} \cup [1..1 -> SettingNames] \cup [1..2 -> SettingNames]]

\* autoconf.py lines 213-214, for the setting alone or each setting of the list
Unknown(settings) ==
    \E i \in DOMAIN settings.names : settings.names[i] \notin registered_matchers

\* autoconf.py line 216, were the name looked up unchecked
RejectedWithKeyError == "KeyError"

\* autoconf.py line 214
RejectedWith == "KeyValidationError"

\* lines 105-108: the registered functions, by name
Functions(settings) == settings.names

\* factory returns the function, or the predicate match over the functions
FactoryReturn ==
    /\ stack # <<>>
    /\ Top.fn = "factory" /\ Top.pc = "entry"
    /\ ~Unknown(args.settings)
    /\ ret' = <<Functions(args.settings)>>
    /\ stack' = Pop
    /\ UNCHANGED <<fleet, charging_posts, args, history>>

\* autoconf.py line 214
FactoryRaise ==
    /\ stack # <<>>
    /\ Top.fn = "factory" /\ Top.pc = "entry"
    /\ Unknown(args.settings)
    /\ stack' = Raise(Top, RejectedWith)
    /\ UNCHANGED <<fleet, charging_posts, args, ret, history>>

\* the pair of rows the caller gives to the predicate
TheVehicle == fleet[1]
ThePost == charging_posts[LabelBase + 1]

\* the caller applies what factory returned to a vehicle and a post
MatchReturn ==
    /\ stack = <<>>
    /\ args.entry = "factory"
    /\ Len(ret) = 1
    /\ ret[1] # <<>>
    /\ ret' = Append(ret, match(ret[1], TheVehicle, ThePost))
    /\ UNCHANGED <<fleet, charging_posts, args, stack, history>>

\* line 111: functions[0] of an empty list
MatchRaise ==
    /\ stack = <<>>
    /\ args.entry = "factory"
    /\ Len(ret) = 1
    /\ ret[1] = <<>>
    /\ stack' = <<[fn |-> "match", pc |-> "raised", error |-> "IndexError"]>>
    /\ UNCHANGED <<fleet, charging_posts, args, ret, history>>

FactoryInit ==
    /\ fleet \in [1..1 -> [socket : VehicleSockets, charger : ChargerTypes]]
    /\ charging_posts \in
          [PostLabels(1) -> [socket : VehicleSockets, charger : ChargerTypes,
                             capacity : {MaxCapacity}, occupancy : 0..MaxCapacity]]
    /\ args \in [entry : {"factory"}, settings : Settings]
    /\ stack = <<[fn |-> "factory", pc |-> "entry", error |-> ""]>>
    /\ ret = <<>>
    /\ history = <<>>

FactoryNext ==
    \/ FactoryReturn
    \/ FactoryRaise
    \/ MatchReturn
    \/ MatchRaise

FactorySpec == FactoryInit /\ [][FactoryNext]_vars

----------------------------------------------------------------------------
(* match_all_to_all, lines 340-354 *)

\* an optional argument: <<>> for None, <<x>> for the value x
None == <<>>
Some(x) == <<x>>

IndicesGiven(a) == a.indices # None

\* lines 351-353: the last branch of the chain
BothGiven(a) == a.indices # None /\ a.labels # None

\* lines 342-350: the labels of the posts gathered for the vehicle at row i;
\* an index counts the rows of the table from 0
Candidates(a, i) ==
    IF a.indices # None
    THEN [j \in DOMAIN a.indices[1][i] |-> PostRows[a.indices[1][i][j] + 1]]
    ELSE IF a.labels # None THEN a.labels[1]
    ELSE PostRows

\* the rows of the result: the columns of the fleet have shape (N, 1), those
\* of the posts (N, k) with indices and (1, M) without, so that a matcher
\* that reads no column of the fleet gives one row unless indices are given
ResultRows(a) ==
    IF a.indices # None \/ IsSeries(a.functions) THEN DOMAIN fleet ELSE 1..1

\* line 354: the matcher on the broadcast columns
MatchMatrix(a) ==
    [i \in ResultRows(a) |->
        [j \in DOMAIN Candidates(a, i) |->
            match(a.functions, fleet[i], charging_posts[Candidates(a, i)[j]])]]

MatchAllToAllReturn ==
    /\ stack # <<>>
    /\ Top.fn = "match_all_to_all" /\ Top.pc = "entry"
    /\ ~BothGiven(args)
    /\ ret' = <<MatchMatrix(args)>>
    /\ stack' = Pop
    /\ UNCHANGED <<fleet, charging_posts, args, history>>

\* lines 352-353
MatchAllToAllRaise ==
    /\ stack # <<>>
    /\ Top.fn = "match_all_to_all" /\ Top.pc = "entry"
    /\ BothGiven(args)
    /\ stack' = Raise(Top, "ValueError")
    /\ UNCHANGED <<fleet, charging_posts, args, ret, history>>

\* one candidate post per vehicle, by position from 0
IndexMatrices(n) == [Vehicles -> [1..1 -> 0..(n - 1)]]

\* one or two candidate posts for every vehicle, by label
LabelLists(n) == [1..1 -> PostLabels(n)] \cup [1..2 -> PostLabels(n)]

MatchAllToAllArgs(n) ==
    [entry : {"match_all_to_all"},
     functions : {<<"socket_compatibility">>, <<"charging_post_availability">>},
     labels : {None} \cup {Some(l) : l \in LabelLists(n)},
     indices : {None} \cup {Some(x) : x \in IndexMatrices(n)}]

MatchAllToAllInit ==
    /\ charging_posts \in UNION {PostTables(n) : n \in 1..NumPosts}
    /\ fleet \in [Vehicles -> [socket : SingleSockets]]
    /\ args \in MatchAllToAllArgs(Cardinality(DOMAIN charging_posts))
    /\ (args.indices # None /\ args.labels # None) => args.labels[1] = <<LabelBase + 1>>
    /\ stack = <<[fn |-> "match_all_to_all", pc |-> "entry", error |-> ""]>>
    /\ ret = <<>>
    /\ history = <<>>

MatchAllToAllNext ==
    \/ MatchAllToAllReturn
    \/ MatchAllToAllRaise

MatchAllToAllSpec == MatchAllToAllInit /\ [][MatchAllToAllNext]_vars

----------------------------------------------------------------------------
(* Claims on classify *)

ClassifyEntry == args.entry = "classify"
Exhausted == stack = <<>>

\* the rows of class c, as positions in the table
Members(c) == {i \in DOMAIN c.mask : c.mask[i]}

\* the row of the table at a position, and the row with a label
RowAt(i) == charging_posts[PostRows[i]]

\* the classes of the run with revisit=False the caller holds are pairwise
\* disjoint and every row of a class matches the template row of the class
DisjointMatchingClasses ==
    /\ \A k, l \in DOMAIN ret : k # l => Members(ret[k]) \cap Members(ret[l]) = {}
    /\ \A k \in DOMAIN ret : \A i \in Members(ret[k]) :
          match(args.functions, RowAt(i), charging_posts[ret[k].template])

\* every row of the table is in exactly one of the classes the caller holds
EveryRowInOneClass ==
    \A i \in DOMAIN PostRows :
        Cardinality({k \in DOMAIN ret : i \in Members(ret[k])}) = 1

\* C11: with revisit=False and a matcher that compares the rows with the
\* template row, the classes classify yields partition the table: they are
\* pairwise disjoint, every row of a class matches the template row of the
\* class, and the classes come to hold every row of the table exactly once.
C11_ClassifyPartition ==
    (ClassifyEntry /\ ~args.revisit /\ IsSeries(args.functions)) =>
        /\ [](~args.revisit => DisjointMatchingClasses)
        /\ <>(~args.revisit /\ EveryRowInOneClass)

\* C12: classify with revisit=True yields as many classes as with
\* revisit=False, with the same templates in the same order, and each class
\* contains the class of the same rank of the revisit=False run.
C12_RevisitSuperset ==
    (ClassifyEntry /\ Exhausted /\ history # <<>>) =>
        /\ Len(ret) = Len(history[1].classes)
        /\ \A k \in DOMAIN ret :
              /\ ret[k].template = history[1].classes[k].template
              /\ Members(history[1].classes[k]) \subseteq Members(ret[k])

\* both runs done, one overlapping class strictly larger
C12_Witness ==
    /\ ClassifyEntry /\ Exhausted /\ history # <<>>
    /\ \E k \in DOMAIN ret : Members(ret[k]) # Members(history[1].classes[k])

\* the generator has stopped: exhausted, or ended by an exception
ClassifyFinished == stack = <<>> \/ Top.pc = "raised"

\* C13: classify terminates for every table and every matcher: it stops
\* after finitely many classes.
C13_ClassifyTerminates == <>ClassifyFinished

\* a class is yielded and no row leaves the rows still to classify
C13_NoProgress ==
    /\ ClassifyEntry /\ ~Exhausted
    /\ Top.pc = "loop"
    /\ Len(ret) > Len(Top.data)

----------------------------------------------------------------------------
(* Claims on classify_with_fleet *)

\* the vehicles of a class
FleetMembers(c) == {v \in DOMAIN c.fleet : c.fleet[v]}

MatchesTemplate(v, k) ==
    match(args.functions, fleet[v], charging_posts[ret[k].charging_posts.template])

\* C14: with revisit=False, classify_with_fleet pairs each class of posts
\* with exactly the vehicles that match the template post of the class and
\* match the template of no earlier class; the subfleets of two classes are
\* disjoint.
C14_FleetNotCountedTwice ==
    (args.entry = "classify_with_fleet" /\ ~args.revisit) =>
        /\ \A k \in DOMAIN ret :
              FleetMembers(ret[k]) =
                  {v \in DOMAIN fleet :
                      /\ MatchesTemplate(v, k)
                      /\ \A l \in 1..(k - 1) : ~MatchesTemplate(v, l)}
        /\ \A k, l \in DOMAIN ret :
              k # l => FleetMembers(ret[k]) \cap FleetMembers(ret[l]) = {}

\* a vehicle matching the templates of two classes, counted with the first
C14_Witness ==
    /\ args.entry = "classify_with_fleet" /\ ~args.revisit
    /\ stack = <<>>
    /\ Len(ret) >= 2
    /\ \E v \in FleetMembers(ret[1]) : MatchesTemplate(v, 2)
    /\ FleetMembers(ret[2]) # {}

----------------------------------------------------------------------------
(* Claims on factory and the registered matchers *)

FactoryEntry == args.entry = "factory"

\* the predicate was applied to the pair of rows, and returned
Evaluated == FactoryEntry /\ stack = <<>> /\ Len(ret) = 2

\* the predicate was applied to the pair of rows
Applied == Evaluated \/ (FactoryEntry /\ stack # <<>> /\ Top.fn = "match")

\* C15: the predicate factory builds from a list of settings returns True on
\* a pair exactly when every function of the list returns True on that pair.
C15_FactoryIsConjunction ==
    (Applied /\ ~args.settings.text) =>
        /\ Evaluated
        /\ ret[2] = \A i \in DOMAIN args.settings.names :
                        Call(args.settings.names[i], TheVehicle, ThePost)

\* C16: a setting with an unknown name is rejected with KeyValidationError by
\* factory itself: no predicate is returned and nothing is ever matched; a
\* setting with registered names only is never rejected.
C16_UnknownNameRejected ==
    FactoryEntry =>
        /\ Unknown(args.settings) =>
              /\ ret = <<>>
              /\ stack # <<>>
              /\ Top.fn = "factory"
              /\ Top.pc \in {"entry", "raised"}
              /\ Top.pc = "raised" => Top.error = "KeyValidationError"
        /\ ~Unknown(args.settings) =>
              ~(stack # <<>> /\ Top.fn = "factory" /\ Top.pc = "raised")

\* a list rejected for its second name, the first being registered
C16_Witness ==
    /\ FactoryEntry
    /\ stack # <<>> /\ Top.pc = "raised" /\ Top.error = "KeyValidationError"
    /\ Len(args.settings.names) = 2
    /\ args.settings.names[1] \in registered_matchers

\* whether the flag x has the member t
HasMember(x, t) == (x \div t) % 2 = 1

\* C19: socket_compatibility (charger_compatibility) is True exactly when the
\* vehicle and the post share a socket (charger) type, whichever of the two
\* is given first; charging_post_availability is True exactly when the
\* occupancy of the post is below its capacity, whatever the vehicle.
C19_BuiltinMatchers ==
    (Evaluated /\ args.settings.text) =>
        LET name == args.settings.names[1]
        IN /\ name = "socket_compatibility" =>
                /\ ret[2] = \E t \in SingleSockets :
                                HasMember(TheVehicle.socket, t) /\ HasMember(ThePost.socket, t)
                /\ ret[2] = socket_compatibility(ThePost, TheVehicle)
           /\ name = "charger_compatibility" =>
                /\ ret[2] = \E t \in {SLOW, FAST} :
                                HasMember(TheVehicle.charger, t) /\ HasMember(ThePost.charger, t)
                /\ ret[2] = charger_compatibility(ThePost, TheVehicle)
           /\ name = "charging_post_availability" =>
                /\ ret[2] = (ThePost.occupancy < ThePost.capacity)
                /\ \A socket \in VehicleSockets, charger \in ChargerTypes :
                      ret[2] = Call(name, [socket |-> socket, charger |-> charger], ThePost)

\* a full post found unavailable for a vehicle whose socket and charger fit
C19_Witness ==
    /\ Evaluated /\ args.settings.text
    /\ args.settings.names[1] = "charging_post_availability"
    /\ ~ret[2]
    /\ socket_compatibility(TheVehicle, ThePost)
    /\ charger_compatibility(TheVehicle, ThePost)

----------------------------------------------------------------------------
(* Claims on match_all_to_all *)

MatchAllToAllEntry == args.entry = "match_all_to_all"
Raised(error) == stack # <<>> /\ Top.pc = "raised" /\ Top.error = error

\* C17: match_all_to_all raises ValueError and returns no matrix when both
\* indices and labels are given; given one of them or none it never does.
C17_BothGivenRejected ==
    MatchAllToAllEntry =>
        /\ (args.indices # None /\ args.labels # None) =>
              ret = <<>> /\ (Top.pc = "entry" \/ Raised("ValueError"))
        /\ (args.indices = None \/ args.labels = None) => ~Raised("ValueError")

\* the call with both arguments has raised
C17_Witness ==
    /\ MatchAllToAllEntry
    /\ args.indices # None /\ args.labels # None
    /\ Raised("ValueError")

\* the post the claim names for vehicle i and column j
Gathered(i, j) ==
    IF args.indices # None THEN PostRows[args.indices[1][i][j] + 1]
    ELSE IF args.labels # None THEN args.labels[1][j]
    ELSE PostRows[j]

Columns18 ==
    IF args.indices # None THEN DOMAIN args.indices[1][1]
    ELSE IF args.labels # None THEN DOMAIN args.labels[1]
    ELSE DOMAIN PostRows

\* C18: the matrix match_all_to_all returns has, for every vehicle i and
\* every candidate j, the value of the matcher on vehicle i and the post at
\* position indices[i][j], or labelled labels[j], or the j-th post.
C18_PairwiseMatrix ==
    (MatchAllToAllEntry /\ stack = <<>>) =>
        \A i \in DOMAIN fleet : \A j \in Columns18 :
            /\ i \in DOMAIN ret[1]
            /\ j \in DOMAIN ret[1][i]
            /\ ret[1][i][j] = match(args.functions, fleet[i], charging_posts[Gathered(i, j)])

----------------------------------------------------------------------------
(* random_allocator leaves nothing that could still be placed *)

\* the post has received fewer vehicles than it had vacant slots
Unfilled(p) == Received(Output, p) < OriginalVacancy(p)

\* C20: when the vacancies are at least as many as the vehicles and maxiter
\* is left to its default, random_allocator returns a table in which no
\* unassigned vehicle is compatible, by the matcher, with a post that still
\* has an unfilled slot.
C20_RandomMaximal ==
    (Done /\ args.entry = "random_allocator" /\ args.maxiter = 0 /\ ~Overbooked) =>
        \A v \in Vehicles : Output[v] = NA =>
            \A p \in DOMAIN charging_posts : Unfilled(p) => ~Matches(v, p)

\* a vehicle is left unassigned beside an unfilled post, and another vehicle
\* was placed
C20_Witness ==
    /\ Done
    /\ args.entry = "random_allocator"
    /\ args.maxiter = 0
    /\ ~Overbooked
    /\ \E v, w \in Vehicles : Output[v] = NA /\ Output[w] # NA
    /\ \E p \in DOMAIN charging_posts : Unfilled(p)

----------------------------------------------------------------------------
(* Claims on the waves of random_overbooking *)

\* a random_overbooking call past its test of line 140
OverbookingCalls ==
    {i \in DOMAIN stack : stack[i].fn = "random_overbooking" /\ stack[i].pc # "entry"}

\* the vehicles of the call left out of its first wave
Leftover(f) == Range(f.fleet) \ f.subfleet_filter

\* occupancy of post p of the call once its first wave is counted in
AfterFirstWave(f, p) == f.occupancy[p] + Received(f.allocation, p)

\* C21: a random_overbooking call with more vehicles F than vacancies V
\* splits its fleet into a first wave of exactly V vehicles and a leftover
\* of the other F - V; the base method runs on the first wave with the whole
\* infrastructure of the call, and the leftover is offered exactly the posts
\* still vacant once the first wave's allocations are added to occupancy.
C21_OverbookingPartition ==
    \A i \in OverbookingCalls :
        LET f == stack[i] IN
        IF TotalVacancy(f) >= Len(f.fleet)
        THEN f.pc = "wait_method"
        ELSE /\ f.pc \in {"wait_subfleet", "wait_leftover"}
             /\ f.subfleet_filter \subseteq Range(f.fleet)
             /\ Cardinality(f.subfleet_filter) = TotalVacancy(f)
             /\ Cardinality(Leftover(f)) = Len(f.fleet) - TotalVacancy(f)
             /\ (f.pc = "wait_subfleet" /\ i < Len(stack)) =>
                   /\ stack[i + 1].fn = "random_allocator"
                   /\ Range(stack[i + 1].fleet) = f.subfleet_filter
                   /\ stack[i + 1].posts = f.posts
                   /\ stack[i + 1].occupancy = f.occupancy
             /\ (f.pc = "wait_leftover" /\ i < Len(stack)) =>
                   /\ stack[i + 1].fn = "random_overbooking"
                   /\ Range(stack[i + 1].fleet) = Leftover(f)
                   /\ Range(stack[i + 1].posts) =
                         {p \in Range(f.posts) :
                             AfterFirstWave(f, p) < charging_posts[p].capacity}
                   /\ \A p \in Range(stack[i + 1].posts) :
                         stack[i + 1].occupancy[p] = AfterFirstWave(f, p)

\* a first wave of one vehicle is back, and the leftover is offered fewer
\* posts than the call had
C21_Witness ==
    \E i \in OverbookingCalls :
        /\ stack[i].pc = "wait_leftover"
        /\ i < Len(stack)
        /\ stack[i].subfleet_filter # {}
        /\ Leftover(stack[i]) # {}
        /\ Len(stack[i + 1].posts) < Len(stack[i].posts)

\* a call of random_overbooking is running
OverbookingRunning == OverbookingCalls # {} \/ (stack # <<>> /\ Top.fn = "random_overbooking")

\* the innermost call returns the table it was handed (the fleet fitted, or
\* the leftover call is back), or no post is vacant after the first wave
\* and the leftover is returned unassigned
OverbookingStops ==
    (/\ stack # <<>>
     /\ Top.fn = "random_overbooking"
     /\ Len(stack') < Len(stack)) =>
        \/ Top.pc = "wait_method" /\ TotalVacancy(Top) >= Len(Top.fleet)
        \/ Top.pc = "wait_leftover"
        \/ /\ Top.pc = "wait_subfleet"
           /\ \A p \in Range(Top.posts) :
                 Top.occupancy[p] + Received(ret[1], p) >= charging_posts[p].capacity
           /\ \A v \in Leftover(Top) : ret'[1][v] = NA

\* C22: random_overbooking terminates: every running call returns, and a
\* call returns either because its fleet fitted and went to the base method,
\* because its leftover call returned, or because no post had vacancy left,
\* the leftover then staying unassigned.
C22_OverbookingTerminates ==
    /\ OverbookingRunning ~> Done
    /\ [][OverbookingStops]_vars

\* the recursion was cut with a vehicle left over: no post was vacant
C22_Witness ==
    /\ Done
    /\ Overbooked
    /\ \E v, w \in Vehicles : Output[v] = NA /\ Output[w] # NA
    /\ \A p \in DOMAIN charging_posts : Received(Output, p) = OriginalVacancy(p)

\* the random_overbooking calls nested at this point
OverbookingDepth ==
    Cardinality({i \in DOMAIN stack : stack[i].fn = "random_overbooking"})

\* C23: the number of nested random_overbooking calls never exceeds the
\* number of charging posts.
C23_DepthBoundedByPosts ==
    OverbookingDepth <= Cardinality(DOMAIN charging_posts)

\* C23, amended: the number of nested random_overbooking calls never
\* exceeds the number of vehicles: each nested call has at least one vehicle
\* and fewer vehicles than the call it is nested in.
C23_DepthBoundedByFleet ==
    /\ OverbookingDepth <= FleetSize
    /\ \A i, j \in DOMAIN stack :
          (/\ i < j
           /\ stack[i].fn = "random_overbooking"
           /\ stack[j].fn = "random_overbooking") =>
              /\ Len(stack[j].fleet) >= 1
              /\ Len(stack[j].fleet) < Len(stack[i].fleet)

\* as many nested calls as vehicles, more than there are posts
C23_Witness ==
    /\ OverbookingDepth = FleetSize
    /\ OverbookingDepth > Cardinality(DOMAIN charging_posts)

----------------------------------------------------------------------------
(* Claims on the rounds of random_allocator *)

\* the random_allocator calls that entered their matching loop
MatchingCalls ==
    {i \in DOMAIN stack : stack[i].fn = "random_allocator"
                          /\ stack[i].pc \in {"loop", "return"}}

\* the budget of the call: maxiter as passed, or the number of slots + 1
Budget(f) == IF args.maxiter > 0 THEN args.maxiter ELSE TotalVacancy(f) + 1

\* the budget is maxiter, or the number of slots + 1 when maxiter is missing
\* or not positive, and no more rounds are run than the budget allows
WithinBudget(f) ==
    /\ f.maxiter = Budget(f)
    /\ f.iteration <= Budget(f)
    /\ f.pc = "loop" => f.iteration < Budget(f)

\* the call returns after a round, with the budget spent or every vehicle
\* assigned, and exactly the vehicles still unassigned are null
ReturnsUnassignedNull(f) ==
    f.pc = "return" =>
        /\ f.iteration >= 1
        /\ f.iteration = Budget(f) \/ f.unassigned = <<>>
        /\ \A v \in Range(f.fleet) :
              f.allocation[v] = NA <=> v \in Range(f.unassigned)

\* C24 as stated: random_allocator runs at most maxiter rounds, a missing or
\* non-positive maxiter meaning the number of slots + 1; it stops as soon as
\* every vehicle is assigned, so after a round it starts no other round when
\* no vehicle is left to assign; when the budget is spent it returns a table
\* where exactly the vehicles still unassigned are null.
C24_StopsWhenAllAssigned ==
    \A i \in MatchingCalls :
        LET f == stack[i] IN
        /\ WithinBudget(f)
        /\ ReturnsUnassignedNull(f)
        /\ (f.pc = "loop" /\ f.iteration > 0) => f.unassigned # <<>>

\* C24 amended: random_allocator runs at most maxiter rounds, a missing or
\* non-positive maxiter meaning the number of slots + 1, and when the budget
\* is spent it returns a table where exactly the vehicles still unassigned
\* are null. It stops at the end of the round that assigns the last vehicle:
\* on a fleet with vehicles it starts no round when no vehicle is left to
\* assign, on a fleet without vehicles it runs every round of its budget.
C24_BudgetedRounds ==
    \A i \in MatchingCalls :
        LET f == stack[i] IN
        /\ WithinBudget(f)
        /\ ReturnsUnassignedNull(f)
        /\ (f.pc = "loop" /\ f.fleet # <<>>) => f.unassigned # <<>>
        /\ (f.pc = "return" /\ f.fleet = <<>>) => f.iteration = Budget(f)

\* a budget of one round is spent and a vehicle is returned null beside a
\* vacant post it matches
C24_Witness ==
    /\ Done
    /\ args.maxiter = 1
    /\ ~Overbooked
    /\ \E v \in Vehicles : \E p \in DOMAIN charging_posts :
          /\ Output[v] = NA
          /\ Matches(v, p)
          /\ Received(Output, p) < OriginalVacancy(p)

\* the step is a round of the matching loop of the innermost call
RoundStep ==
    /\ stack # <<>>
    /\ Top.fn = "random_allocator" /\ Top.pc = "loop"
    /\ Len(stack') = Len(stack)

\* the call after the round
AfterRound == stack'[Len(stack)]

\* positions in the slot list of the slots not taken in the round of call f
KeptSlots(f) ==
    BoolIndex([i \in DOMAIN f.vacancies |-> i],
              [i \in DOMAIN f.vacancies |->
                  ~(i <= Len(f.unassigned) /\ Matches(f.unassigned[i], f.vacancies[i]))])

\* position in the slot list of the slot vehicle v is paired with in call f
PairedSlot(f, v) == CHOOSE i \in DOMAIN f.unassigned : f.unassigned[i] = v

\* position, in the slot list before the round, of the slot the k-th
\* unassigned vehicle is paired with after the remaining slots moved up by one
NextSlot(f, k) == KeptSlots(f)[(k % Len(KeptSlots(f))) + 1]

\* after a round that leaves a vehicle unassigned the slot list is the
\* remaining slots, each moved up one place, the first one last
RotatedByOne ==
    (RoundStep /\ AfterRound.unassigned # <<>>) =>
        /\ Len(AfterRound.vacancies) = Len(KeptSlots(Top))
        /\ \A k \in DOMAIN AfterRound.vacancies :
              AfterRound.vacancies[k] = Top.vacancies[NextSlot(Top, k)]

\* every vehicle still unassigned is paired with another slot than before
AnotherSlot ==
    (RoundStep /\ AfterRound.unassigned # <<>>) =>
        \A k \in DOMAIN AfterRound.unassigned :
            NextSlot(Top, k) # PairedSlot(Top, AfterRound.unassigned[k])

\* with several slots remaining every vehicle still unassigned is paired
\* with the slot after its own; with one slot remaining, with the same slot
NextSlotInTurn ==
    (RoundStep /\ AfterRound.unassigned # <<>>) =>
        \A k \in DOMAIN AfterRound.unassigned :
            LET own == PairedSlot(Top, AfterRound.unassigned[k]) IN
            /\ KeptSlots(Top)[k] = own
            /\ (NextSlot(Top, k) # own) <=> (Len(KeptSlots(Top)) > 1)

\* C25 as stated: after every round of random_allocator that leaves a
\* vehicle unassigned the remaining slot list is rotated by one position, and
\* each vehicle still unassigned is paired in the next round with a
\* different slot from the one it was paired with in this round.
C25_RotationChangesSlot == [][RotatedByOne /\ AnotherSlot]_vars

\* C25, amended: after every round that leaves a vehicle unassigned the
\* remaining slot list is rotated by one position; each vehicle still
\* unassigned is then paired with the slot that followed its own in the
\* remaining list, a different slot exactly when more than one slot remains.
C25_RotationByOne == [][RotatedByOne /\ NextSlotInTurn]_vars

\* a round is over, a vehicle is unassigned and several slots remain
C25_Witness ==
    /\ stack # <<>>
    /\ Top.fn = "random_allocator" /\ Top.pc = "loop"
    /\ Top.iteration >= 1
    /\ Top.unassigned # <<>>
    /\ Len(Top.vacancies) >= 2

----------------------------------------------------------------------------
(* Claims on the rounds of greedy_allocator *)

\* the greedy_allocator calls about to run a round
GreedyRounds ==
    {i \in DOMAIN stack : stack[i].fn = "greedy_allocator" /\ stack[i].pc = "loop"}

\* the posts of call f with a vacancy, and its vehicles without a post
Vacant(f) == {p \in Range(f.posts) : charging_posts[p].capacity > f.occupancy[p]}
Unallocated(f) == {v \in Range(f.fleet) : f.allocation[v] = NA}

\* the number of neighbours asked for in the round
Asked(f) == MinOf(f.nearest_neighbors, Cardinality(Vacant(f)))

\* the vacant posts with fewer than k vacant posts nearer to the destination
\* of vehicle v (no two posts are at the same distance of a destination)
Window(f, v) ==
    {p \in Vacant(f) :
        Cardinality({q \in Vacant(f) : Distance(v, q) < Distance(v, p)}) < Asked(f)}

\* the posts of the window that match the vehicle
MatchingInWindow(f, v) == {p \in Window(f, v) : Matches(v, p)}

\* the tentative picks of the round
Picks(f) == PicksWith(f, f.nearest_neighbors)

\* C26: in each round of greedy_allocator the post picked for an unassigned
\* vehicle is the nearest of the matching posts among its k nearest vacant
\* posts; a vehicle with no matching post among those k picks nothing.
C26_NearestMatchingPick ==
    \A i \in GreedyRounds :
        LET f == stack[i]
            picks == Picks(f)
        IN /\ DOMAIN picks \subseteq Unallocated(f)
           /\ \A v \in Unallocated(f) :
                 LET matching == MatchingInWindow(f, v) IN
                 IF matching = {}
                 THEN v \notin DOMAIN picks
                 ELSE /\ v \in DOMAIN picks
                      /\ picks[v] \in matching
                      /\ \A q \in matching : Distance(v, picks[v]) <= Distance(v, q)

\* in one round a vehicle picks the nearer of two matching posts, and
\* another vehicle picks the second nearest post, its nearest not matching
C26_Witness ==
    \E i \in GreedyRounds :
        /\ \E v \in Unallocated(stack[i]) :
              Cardinality(MatchingInWindow(stack[i], v)) >= 2
        /\ \E w \in DOMAIN Picks(stack[i]) :
              \E q \in Window(stack[i], w) :
                  Distance(w, q) < Distance(w, Picks(stack[i])[w])

\* the vehicles of a column on post p
Pickers(column, p) == {v \in DOMAIN column : column[v] = p}

\* C27: the overbooking-void step keeps, for each post picked in a round,
\* the first min(number of pickers, remaining vacancy) pickers in table
\* order and voids the others, changing no kept value: no post is
\* overbooked afterwards, a post picked by more vehicles than its vacancy
\* ends exactly full, a post picked by no more than its vacancy keeps all.
C27_VoidKeepsFirst ==
    \A i \in GreedyRounds :
        LET f == stack[i]
            picks == Picks(f)
            kept == VoidOverbooking(f, picks)
        IN /\ DOMAIN kept = DOMAIN picks
           /\ \A v \in DOMAIN picks : kept[v] \in {picks[v], NA}
           /\ \A p \in Range(f.posts) :
                 LET vacancy == charging_posts[p].capacity - f.occupancy[p]
                     pickers == Pickers(picks, p)
                     stay == Pickers(kept, p)
                 IN /\ Cardinality(stay) = MinOf(Cardinality(pickers), vacancy)
                    /\ \A v \in stay : \A u \in pickers \ stay : v < u
                    /\ f.occupancy[p] + Cardinality(stay) <= charging_posts[p].capacity
                    /\ Cardinality(pickers) > vacancy =>
                          f.occupancy[p] + Cardinality(stay) = charging_posts[p].capacity
                    /\ Cardinality(pickers) <= vacancy => stay = pickers

\* a post is picked by more vehicles than it has room for: a picker is
\* kept and a picker is voided
C27_Witness ==
    \E i \in GreedyRounds :
        LET picks == Picks(stack[i])
            kept == VoidOverbooking(stack[i], picks)
        IN /\ \E v \in DOMAIN picks : kept[v] = NA
           /\ \E v \in DOMAIN picks : kept[v] # NA

\* the step is a round of the loop of greedy_allocator
GreedyRoundStep ==
    /\ stack # <<>>
    /\ Top.fn = "greedy_allocator" /\ Top.pc = "loop"
    /\ Len(stack') = Len(stack)

\* the vehicles that get their post in the round
NewlyAssigned == {v \in Unallocated(Top) : AfterRound.allocation[v] # NA}

\* what ends the loop of call f: the budget is spent, no post has a vacancy,
\* or every vehicle has a post
LoopOver(f) ==
    \/ f.iteration >= f.maxiter
    \/ Vacant(f) = {}
    \/ Unallocated(f) = {}

\* a round commits new assignments and adds their number to the counter, or
\* assigns nothing and ends the loop; after a round that assigned, the loop
\* ends exactly when LoopOver
RoundCommitsOrEnds ==
    GreedyRoundStep =>
        /\ \A v \in Range(Top.fleet) \ Unallocated(Top) :
              AfterRound.allocation[v] = Top.allocation[v]
        /\ IF NewlyAssigned = {}
           THEN /\ AfterRound.pc = "return"
                /\ AfterRound.occupancy = Top.occupancy
           ELSE /\ AfterRound.iteration = Top.iteration + Cardinality(NewlyAssigned)
                /\ \A p \in Range(Top.posts) :
                      AfterRound.occupancy[p] =
                          Top.occupancy[p]
                          + Cardinality({v \in NewlyAssigned : AfterRound.allocation[v] = p})
                /\ AfterRound.pc = "return" <=> LoopOver(AfterRound)

\* a round is only run while the loop is not over
RoundsWhileNotOver == \A i \in GreedyRounds : ~LoopOver(stack[i])

\* C28: greedy_allocator terminates: each round either commits at least one
\* new assignment, advancing the iteration counter by the number of newly
\* filled vacancies, or ends the loop; the loop ends when all capacity is
\* exhausted, all vehicles are assigned, the counter reaches maxiter, or a
\* round produces no new assignment.
C28_GreedyTerminates ==
    /\ <>Done
    /\ []RoundsWhileNotOver
    /\ [][RoundCommitsOrEnds]_vars

\* with a budget of one, a single round filled two vacancies and the counter
\* stands at two
C28_Witness ==
    /\ stack # <<>>
    /\ Top.fn = "greedy_allocator" /\ Top.pc = "return"
    /\ args.maxiter = 1
    /\ Top.iteration = 2

\* the step is the return of greedy_allocator
GreedyReturnStep ==
    /\ stack # <<>>
    /\ Top.fn = "greedy_allocator" /\ Top.pc = "return"
    /\ Len(stack') < Len(stack)

\* the warning is given in the rounds that assign nothing with fewer
\* neighbours asked for than posts are vacant, and in no other; the call
\* then goes on to its return
WarnsWhenNarrow ==
    GreedyRoundStep =>
        /\ AfterRound.warned <=>
              (NewlyAssigned = {} /\ Asked(Top) < Cardinality(Vacant(Top)))
        /\ AfterRound.warned =>
              /\ AfterRound.pc = "return"
              /\ AfterRound.allocation = Top.allocation

\* the call returns the allocation built so far, warned or not
ReturnsPartial == GreedyReturnStep => ret' = <<Top.allocation>>

\* no warning before the first round
NoEarlyWarning ==
    \A i \in DOMAIN stack : stack[i].warned => stack[i].pc = "return"

\* C29: greedy_allocator gives an AllocationWarning exactly when a round
\* yields no new assignment while k, the number of neighbours asked for in
\* that round, is smaller than the number of posts with a vacancy in that
\* round; it then raises nothing and returns the allocation built so far.
C29_WarningWhenNarrow ==
    /\ []NoEarlyWarning
    /\ [][WarnsWhenNarrow /\ ReturnsPartial]_vars

\* the call has warned: a vehicle without a post matches a vacant post that
\* was not among its neighbours
C29_Witness ==
    /\ stack # <<>>
    /\ Top.fn = "greedy_allocator" /\ Top.pc = "return"
    /\ Top.warned
    /\ \E v \in Unallocated(Top) : \E p \in Vacant(Top) :
          Matches(v, p) /\ p \notin Window(Top, v)

----------------------------------------------------------------------------
(* The caller's tables *)

\* C30: no allocator changes the caller's tables: the fills in progress are
\* kept in a working copy of occupancy only, and across every step of every
\* allocator the infrastructure table and the fleet table stay as they were.
C30_TablesUntouched ==
    [][charging_posts' = charging_posts /\ fleet' = fleet]_vars

\* a call handed the caller's own table counts a fill that the table does
\* not show: greedy_allocator in its working occupancy after a round,
\* random_overbooking when it counts the first wave that has come back
C30_Witness ==
    \E i \in DOMAIN stack :
        /\ TableOf(i) = "caller"
        /\ \/ /\ stack[i].fn = "greedy_allocator"
              /\ \E p \in Range(stack[i].posts) :
                    stack[i].occupancy[p] > charging_posts[p].occupancy
           \/ /\ stack[i].fn = "random_overbooking"
              /\ stack[i].pc = "wait_subfleet"
              /\ ret # NoTable
              /\ \E p \in Range(stack[i].posts) :
                    OccupancyAfter(stack[i], ret[1])[p] > charging_posts[p].occupancy

====
